---- MODULE Spec2Model ----
(***************************************************************************)
(* The tic-tac-toe board engine of src/tic_tac_toe.py (TicTacToeBoard and  *)
(* np_conv2d) as a state machine.  The engine's fields are the variables   *)
(* board, counter, on_move and terminated; every call of reset or step is  *)
(* one action, and the call made and what it returned or raised are kept   *)
(* in call and ret.                                                        *)
(***************************************************************************)
EXTENDS Integers, Sequences, FiniteSets, TLC

\* The board of the drivers: TicTacToeBoard(size=(3, 3)).
Rows == 3
Cols == 3

\* How far beyond the grid, on either side, the indices handed to step range.
Beyond == 1

\* Python's None, and a present value: an optional is a set of at most one value.
None == {}
Some(v) == {v}
The(o) == CHOOSE v \in o : TRUE

\* self.win_len = length if length else min(size), with length left out.
win_len == IF Rows < Cols THEN Rows ELSE Cols

VARIABLES
    board,        \* self.board: the grid, rows of cells holding 1, -1 or 0
    counter,      \* self.counter
    on_move,      \* self.on_move
    terminated,   \* self.terminated
    call,         \* the last call made on the engine
    ret,          \* what that call returned (value) or raised (raised)
    played,       \* how far the calls since the last reset follow DrawLine
    played_win    \* how far the calls since the last reset follow WinLine

\* The engine and the record of the calls made on it.
evars == <<board, counter, on_move, terminated, call, ret, played, played_win>>

VARIABLES
    table,        \* QTable.table of a policy's q_table
    file,         \* the file the table is saved to: None while there is none
    saved,        \* the table as it was when the file was written
    mode,         \* QLearningPolicy.mode
    updates       \* the number of update_q_table calls made

\* A Q-learning policy, its table and the table's file.
qvars == <<table, file, saved, mode, updates>>

\* The number of update_q_table calls followed.
MaxUpdates == 1

VARIABLES
    pc,              \* where run_test or run_train stands: "idle" before the
                     \* call, "loop" at the head of its loop, "done" once it
                     \* has left the loop, "raised" once a call in it raised
    kind,            \* which of the two runs: "run_test" or "run_train"
    train_p1,        \* run_train's train_p1
    train_p2,        \* run_train's train_p2
    p1_state,        \* the loop's local variables; None while unbound
    p2_state,
    rewards,         \* (p1_reward, p2_reward)
    info,
    transaction_p1,  \* None for the empty dict
    transaction_p2,
    updated          \* the update_q_table calls of the last pass of the loop

VARIABLES
    plies,           \* for each side, the moves it has made in the game
    calls,           \* for each side, the update_q_table calls made on its policy
    moved            \* for each side that trains, its last move: the board it
                     \* moved on, the cell, and its reward of that step

VARIABLES
    heap,            \* the QTable objects made so far: the dict each one holds
    p1,              \* the policy of the first side: its class, marker and, for
                     \* a QLearningPolicy, its mode and which QTable is its q_table
    p2,              \* the policy of the second side
    learnt           \* for each update_q_table call of the last pass, the heap
                     \* before and after it

\* The policies of a game and their tables.
tvars == <<heap, p1, p2, learnt>>

\* A game run by run_test or run_train, and what was seen of it.
gvars == <<pc, kind, train_p1, train_p2, p1_state, p2_state, rewards, info,
           transaction_p1, transaction_p2, updated, plies, calls, moved, tvars>>

\* How many of the cells a random draw can give are followed in a game with
\* tables: the first MaxChoice of the empty cells.
MaxChoice == 2

----------------------------------------------------------------------------
(* Two-dimensional arrays are sequences of rows; the entry of a at the     *)
(* 0-based position <<i, j>> is a[i + 1][j + 1].  A sequence built entry   *)
(* by entry is followed by \o <<>>, which leaves it as it is and has TLC   *)
(* hold it as an explicit sequence instead of recomputing its entries.     *)

height(a) == Len(a)
width(a) == Len(a[1])
at(a, p) == a[p[1] + 1][p[2] + 1]

\* The 0-based positions of an h x w array.
Idx(h, w) == (0 .. h - 1) \X (0 .. w - 1)

Cells == Idx(Rows, Cols)

\* np.zeros(size, dtype=int)
zeros == [i \in 1 .. Rows |-> [j \in 1 .. Cols |-> 0]]

\* np.ones((h, w))
ones(h, w) == [i \in 1 .. h |-> [j \in 1 .. w |-> 1]]

\* np.eye(n)
eye(n) == [i \in 1 .. n |-> [j \in 1 .. n |-> IF i = j THEN 1 ELSE 0]]

\* np.rot90(m): the array turned a quarter counter-clockwise.
rot90(m) ==
    [i \in 1 .. width(m) |-> [j \in 1 .. height(m) |-> m[j][width(m) + 1 - i]]]

\* The 0-based positions of an h x w array in row-major order.
RowMajor(h, w) == [n \in 1 .. h * w |-> <<(n - 1) \div w, (n - 1) % w>>]

\* a.flatten(), a.reshape(-1)
flatten(a) ==
    [n \in 1 .. height(a) * width(a) |->
        a[1 + ((n - 1) \div width(a))][1 + ((n - 1) % width(a))]] \o <<>>

RECURSIVE dotFrom(_, _, _)
dotFrom(u, v, n) ==
    IF n > Len(u) THEN 0 ELSE u[n] * v[n] + dotFrom(u, v, n + 1)

\* u.dot(v) of two vectors of one length
dot(u, v) == dotFrom(u, v, 1)

\* A slip: the window at the origin taken at every offset.
sliding_window_at_origin(x, h, w, r, c) ==
    [n \in 1 .. h * w |-> x[1 + ((n - 1) \div w)][1 + ((n - 1) % w)]] \o <<>>

\* sliding_window_view(x, (h, w))[r, c], flattened: the h x w window of x at the
\* 0-based offset <<r, c>>, row-major.
sliding_window(x, h, w, r, c) ==
    [n \in 1 .. h * w |-> x[r + 1 + ((n - 1) \div w)][c + 1 + ((n - 1) % w)]] \o <<>>

\* np_conv2d(x, ker): the valid correlation of x with ker.
np_conv2d(x, ker) ==
    LET flat == flatten(ker)
    IN  [i \in 1 .. height(x) - height(ker) + 1 |->
            [j \in 1 .. width(x) - width(ker) + 1 |->
                dot(sliding_window(x, height(ker), width(ker), i - 1, j - 1),
                    flat)] \o <<>>] \o <<>>

\* np.stack(np.where(a == v), -1): the positions of a holding v, row-major.
where(a, v) ==
    SelectSeq(RowMajor(height(a), width(a)), LAMBDA p : at(a, p) = v)

RECURSIVE concatenate(_)
\* np.concatenate(ss) of a sequence of sequences
concatenate(ss) ==
    IF ss = <<>> THEN <<>> ELSE Head(ss) \o concatenate(Tail(ss))

\* A slip: the offsets alone, the bases not added.
line_coords_offsets_only(offsets, bases) == offsets

\* (offsets[:, None] + bases).reshape(-1, 2): every offset plus every base.
line_coords(offsets, bases) ==
    concatenate([i \in 1 .. Len(offsets) |->
        [j \in 1 .. Len(bases) |->
            <<offsets[i][1] + bases[j][1], offsets[i][2] + bases[j][2]>>]])

----------------------------------------------------------------------------
(* TicTacToeBoard._check_board                                             *)

\* The kernels of lines 72-74 for length = self.win_len.
ker_horizontal(length) == ones(1, length)
ker_diagonal(length) == eye(length)
ker_vertical(length) == rot90(ker_horizontal(length))
\* A slip: the diagonal kernel used unturned for the anti-diagonal.
ker_antidiagonal_unturned(length) == ker_diagonal(length)
ker_antidiagonal(length) == rot90(ker_diagonal(length))
kernels(length) ==
    <<ker_horizontal(length), ker_vertical(length),
      ker_diagonal(length), ker_antidiagonal(length)>>
\* A slip: the cells of the horizontal kernel taken for every kernel.
kernels_bases_horizontal(length) ==
    [k \in 1 .. Len(kernels(length)) |-> where(ker_horizontal(length), 1)]

kernels_bases(length) ==
    [k \in 1 .. Len(kernels(length)) |-> where(kernels(length)[k], 1)]

\* kernels and kernels_bases depend on the length alone: they are worked out
\* once for each length up to win_len and looked up from then on.
kernels_by_length == [length \in 1 .. win_len |-> kernels(length)] \o <<>>
kernels_bases_by_length ==
    [length \in 1 .. win_len |-> kernels_bases(length) \o <<>>] \o <<>>

\* checks = [np_conv2d(self.board, ker) for ker in kernels]
checks_of(b, length) ==
    [k \in 1 .. Len(kernels_by_length[length]) |->
        np_conv2d(b, kernels_by_length[length][k])] \o <<>>

\* The loops of lines 83-88 and 93-98: the coordinates, kernel after kernel, of
\* the windows whose correlation equals target.
coordinates_of(checks, target, length) ==
    concatenate([k \in 1 .. Len(checks) |->
        line_coords(where(checks[k], target), kernels_bases_by_length[length][k])])

\* A slip: np.all(self.board == 0).
all_zero(b) == \A p \in Cells : at(b, p) = 0

\* np.all(self.board != 0)
all_nonzero(b) == \A p \in Cells : at(b, p) # 0

\* The assertion of line 101: not both sides hold a line.
one_winner(p1_win, p2_win) == p1_win # p2_win \/ ~p1_win

\* A slip: the second side's line left out of terminated.
check_terminated_first_only(p1_win, p2_win, b) == p1_win \/ all_nonzero(b)

\* terminated of line 102
check_terminated(p1_win, p2_win, b) == p1_win \/ p2_win \/ all_nonzero(b)

\* Lines 89-111, from the two coordinate lists.
check_result(b, p1_coordinates, p2_coordinates) ==
    LET p1_win == Len(p1_coordinates) > 0
        p2_win == Len(p2_coordinates) > 0
    IN  IF ~one_winner(p1_win, p2_win)
        THEN [raised |-> Some("AssertionError: Something impossible happened!")]
        ELSE IF p1_win
        THEN [raised |-> None, winner |-> 1,
              terminated |-> check_terminated(p1_win, p2_win, b),
              coordinates |-> Some(p1_coordinates)]
        ELSE IF p2_win
        THEN [raised |-> None, winner |-> -1,
              terminated |-> check_terminated(p1_win, p2_win, b),
              coordinates |-> Some(p2_coordinates)]
        ELSE [raised |-> None, winner |-> 0,
              terminated |-> check_terminated(p1_win, p2_win, b),
              coordinates |-> None]

\* _check_board on grid b with self.win_len = length: raised is set when the
\* assertion of line 101 fails, otherwise (winner, terminated, coordinates) is
\* returned.
_check_board(b, length) ==
    CHOOSE res \in
        { check_result(b, coordinates_of(checks, length, length),
                       coordinates_of(checks, -length, length)) :
          checks \in {checks_of(b, length)} } : TRUE

----------------------------------------------------------------------------
(* Indexing self.board[position] with a tuple of ints, as numpy does it.   *)

\* An index i of an axis of length n is taken when -n <= i < n.
index_ok(i, n) == -n <= i /\ i < n

\* A negative index counts from the end of the axis.
wrap(i, n) == IF i < 0 THEN i + n ELSE i

\* position addresses a cell of the grid (else numpy raises IndexError).
addressable(position) ==
    index_ok(position[1], Rows) /\ index_ok(position[2], Cols)

\* The cell of the grid that self.board[position] reads and writes.
cell_at(position) == <<wrap(position[1], Rows), wrap(position[2], Cols)>>

----------------------------------------------------------------------------
(* The calls the model makes.                                              *)

Players == {1, -1}

\* Positions off the grid: negative indices that count from the end, and
\* indices beyond either end of an axis.
Outside ==
    UNION { { <<-d, -d>>, <<-Rows - d, 0>>, <<0, Cols - 1 + d>> } :
            d \in 1 .. Beyond }
Positions == Cells \cup Outside

\* The game of the draw scenario: FIRST and SECOND alternately.
DrawLine ==
    << <<1, <<0, 0>>>>, <<-1, <<0, 1>>>>, <<1, <<0, 2>>>>,
       <<-1, <<1, 0>>>>, <<1, <<1, 1>>>>, <<-1, <<1, 2>>>>,
       <<1, <<2, 0>>>>, <<-1, <<2, 1>>>>, <<1, <<2, 2>>>> >>

\* played after step(player, position): one further along DrawLine when the call
\* is its next move, and -1 (off the line) otherwise.
follow(player, position) ==
    IF played >= 0 /\ played < Len(DrawLine)
       /\ DrawLine[played + 1] = <<player, position>>
    THEN played + 1
    ELSE -1

\* The game of the win scenario: FIRST takes row 0, SECOND plays in row 1.
WinLine ==
    << <<1, <<0, 0>>>>, <<-1, <<1, 0>>>>, <<1, <<0, 1>>>>,
       <<-1, <<1, 1>>>>, <<1, <<0, 2>>>> >>

\* played_win after step(player, position), as follow does it for played.
follow_win(player, position) ==
    IF played_win >= 0 /\ played_win < Len(WinLine)
       /\ WinLine[played_win + 1] = <<player, position>>
    THEN played_win + 1
    ELSE -1

Raise(msg) == [raised |-> Some(msg), value |-> None]
Return(v) == [raised |-> None, value |-> Some(v)]

----------------------------------------------------------------------------
(* The engine.                                                             *)

\* TicTacToeBoard.__init__
Init ==
    /\ board = zeros
    /\ counter = 0
    /\ on_move = 1
    /\ terminated = FALSE
    /\ call = [op |-> "__init__"]
    /\ ret = Return([op |-> "__init__"])
    /\ played = -1
    /\ played_win = -1

\* A slip: reset without line 132, self.terminated = False.
reset_keeps_terminated ==
    /\ counter' = 0
    /\ board' = zeros
    /\ on_move' = 1
    /\ UNCHANGED terminated
    /\ call' = [op |-> "reset"]
    /\ ret' = Return([state |-> board',
                      info |-> [on_move |-> on_move', coordinates |-> None]])
    /\ played' = 0
    /\ played_win' = 0

\* TicTacToeBoard.reset
reset ==
    /\ counter' = 0
    /\ board' = zeros
    /\ on_move' = 1
    /\ terminated' = FALSE
    /\ call' = [op |-> "reset"]
    /\ ret' = Return([state |-> board',
                      info |-> [on_move |-> on_move', coordinates |-> None]])
    /\ played' = 0
    /\ played_win' = 0

\* A slip: the assert of line 162 left out.
step_refused_any_turn(player, position) ==
    IF ~addressable(position)
    THEN Some("IndexError")
    ELSE IF at(board, cell_at(position)) # 0
    THEN Some("AssertionError: Position already occupied!")
    ELSE None

\* The asserts of lines 162 and 163, in their order; None when both pass.
step_refused(player, position) ==
    IF player # on_move
    THEN Some("AssertionError: Not this player's turn!")
    ELSE IF ~addressable(position)
    THEN Some("IndexError")
    ELSE IF at(board, cell_at(position)) # 0
    THEN Some("AssertionError: Position already occupied!")
    ELSE None

\* self.board[position] = player
set_marker(b, player, position) ==
    [b EXCEPT ![cell_at(position)[1] + 1][cell_at(position)[2] + 1] = player]

\* A slip: the counter left as it is.
next_counter_same(c) == c

\* self.counter += 1
next_counter(c) == c + 1

\* A slip: the side on move left as it is.
switch_player_same(player) == player

\* self.on_move = -1 if player == 1 else 1
switch_player(player) == IF player = 1 THEN -1 ELSE 1

\* TicTacToeBoard.step(player, position)
step(player, position) ==
    /\ call' = [op |-> "step", player |-> player, position |-> position]
    /\ played' = follow(player, position)
    /\ played_win' = follow_win(player, position)
    /\ IF step_refused(player, position) # None
       THEN /\ ret' = Raise(The(step_refused(player, position)))
            /\ UNCHANGED <<board, counter, on_move, terminated>>
       ELSE \E marked \in {set_marker(board, player, position)} :
            \E chk \in {_check_board(marked, win_len)} :
                /\ board' = marked
                /\ counter' = next_counter(counter)
                /\ IF chk.raised # None
                   THEN /\ ret' = Raise(The(chk.raised))
                        /\ UNCHANGED <<on_move, terminated>>
                   ELSE /\ on_move' = switch_player(player)
                        /\ terminated' = chk.terminated
                        /\ ret' = Return(
                              [state |-> board',
                               reward |-> <<chk.winner, -chk.winner>>,
                               terminated |-> chk.terminated,
                               info |-> [on_move |-> on_move',
                                         coordinates |-> chk.coordinates]])

\* TicTacToeBoard._check_board on an engine whose board is any grid and whose
\* win_len is length.
CheckBoard(length) ==
    /\ call' = [op |-> "_check_board", length |-> length]
    /\ \E chk \in {_check_board(board, length)} :
           ret' = IF chk.raised # None
                  THEN Raise(The(chk.raised))
                  ELSE Return([winner |-> chk.winner,
                               terminated |-> chk.terminated,
                               coordinates |-> chk.coordinates])
    /\ UNCHANGED <<board, counter, on_move, terminated, played, played_win>>

\* The grids over {FIRST, SECOND, EMPTY}, and the lengths up to min(size).
Grids == [1 .. Rows -> [1 .. Cols -> {1, -1, 0}]]
Lengths == 1 .. win_len

\* An engine with any grid as its board, nothing called on it yet.
AnyGrid ==
    /\ board \in Grids
    /\ counter = 0
    /\ on_move = 1
    /\ terminated = FALSE
    /\ call = [op |-> "__init__"]
    /\ ret = Return([op |-> "__init__"])
    /\ played = -1
    /\ played_win = -1

----------------------------------------------------------------------------
(* Q-values.  The program's floats are modelled as exact fractions         *)
(* <<n, d>> in lowest terms with d > 0; an int v is <<v, 1>>.              *)

RECURSIVE gcd(_, _)
gcd(a, b) == IF b = 0 THEN a ELSE gcd(b, a % b)

abs(n) == IF n < 0 THEN -n ELSE n
lcm(a, b) == (a \div gcd(a, b)) * b

\* The fraction n / d in lowest terms.
Frac(n, d) == <<n \div gcd(abs(n), d), d \div gcd(abs(n), d)>>

\* x + y, x - y, x * y and x > y of two values
add(x, y) ==
    Frac(x[1] * (lcm(x[2], y[2]) \div x[2]) + y[1] * (lcm(x[2], y[2]) \div y[2]),
         lcm(x[2], y[2]))
sub(x, y) == add(x, <<-y[1], y[2]>>)
mul(x, y) ==
    <<(x[1] \div gcd(abs(x[1]), y[2])) * (y[1] \div gcd(abs(y[1]), x[2])),
      (x[2] \div gcd(abs(y[1]), x[2])) * (y[2] \div gcd(abs(x[1]), y[2]))>>
greater(x, y) ==
    x[1] * (lcm(x[2], y[2]) \div x[2]) > y[1] * (lcm(x[2], y[2]) \div y[2])

\* QLearningPolicy.__init__: initial_val, alpha, gamma
initial_val == Frac(0, 1)
alpha == Frac(1, 100)
gamma == Frac(96, 100)

----------------------------------------------------------------------------
(* QTable: a dict from the code of a state to a dict from actions to       *)
(* values.  A dict is a function on the set of its keys.                   *)

\* {}
empty_dict == <<>>

\* d after d[k] = v
put(d, k, v) == (k :> v) @@ d

\* x.astype("b").tobytes(): the entries of x in row-major order, each as the
\* byte of its int8 value.
_encode_state(x) ==
    [n \in 1 .. height(x) * width(x) |->
        x[1 + ((n - 1) \div width(x))][1 + ((n - 1) % width(x))] % 256] \o <<>>

\* A slip: __getitem__ that returns default_val for a key it lacks and stores
\* nothing.
getitem_unstored(t, state, action) ==
    IF _encode_state(state) \in DOMAIN t
       /\ action \in DOMAIN t[_encode_state(state)]
    THEN [table |-> t, value |-> t[_encode_state(state)][action]]
    ELSE [table |-> t, value |-> initial_val]

\* QTable.__getitem__ on key (state, action): the table after the call and the
\* value returned.
getitem(t, state, action) ==
    LET state_code == _encode_state(state)
        t1 == IF state_code \notin DOMAIN t THEN put(t, state_code, empty_dict) ELSE t
        t2 == IF action \notin DOMAIN t1[state_code]
              THEN put(t1, state_code, put(t1[state_code], action, initial_val))
              ELSE t1
    IN  [table |-> t2, value |-> t2[state_code][action]]

\* QTable.__setitem__ on key (state, action): self.table[state_code] is looked
\* up, not created, so a state_code the table lacks raises KeyError.
setitem(t, state, action, val) ==
    LET state_code == _encode_state(state)
    IN  IF state_code \notin DOMAIN t
        THEN [raised |-> Some("KeyError"), table |-> t]
        ELSE [raised |-> None,
              table |-> put(t, state_code, put(t[state_code], action, val))]

\* The elements of a finite set, one after the other.
RECURSIVE listed(_)
listed(S) ==
    IF S = {} THEN <<>>
    ELSE LET x == CHOOSE y \in S : TRUE IN <<x>> \o listed(S \ {x})

\* pkl.dump(self.table, f): the items of the dict, each inner dict as its items.
dumps(t) ==
    LET codes == listed(DOMAIN t)
        items(d) == LET ks == listed(DOMAIN d)
                    IN  [i \in 1 .. Len(ks) |-> <<ks[i], d[ks[i]]>>] \o <<>>
    IN  [i \in 1 .. Len(codes) |-> <<codes[i], items(t[codes[i]])>>] \o <<>>

\* For each key of the items s, where its item stands in s.
from_items(s) ==
    [k \in {s[i][1] : i \in 1 .. Len(s)} |->
        (CHOOSE i \in 1 .. Len(s) : s[i][1] = k) ]

\* pkl.load(f)
loads(stream) ==
    LET outer == from_items(stream)
    IN  [code \in DOMAIN outer |->
            LET inner == stream[outer[code]][2]
            IN  [a \in DOMAIN from_items(inner) |-> inner[from_items(inner)[a]][2]]]

\* A slip: load that adds the file's entries to the table it had.
loaded_merged(t, stream) ==
    [code \in DOMAIN t \cup DOMAIN loads(stream) |->
        IF code \in DOMAIN loads(stream) THEN loads(stream)[code] ELSE t[code]]

\* self.table after QTable.load: the table read from the file.
loaded(t, stream) == loads(stream)

\* The boards handed to the table and to the policies: one with three empty
\* cells, one with a single empty cell, one full.
Bmid == << <<1, 0, -1>>, <<-1, 0, 1>>, <<1, -1, 0>> >>
Bone == << <<1, -1, 1>>, <<-1, 0, 1>>, <<-1, 1, -1>> >>
Bfull == << <<1, -1, 1>>, <<-1, 1, 1>>, <<-1, 1, -1>> >>

QStates == {Bmid, Bone}
QActions == {<<0, 1>>, <<1, 1>>}
QVals == {Frac(1, 1)}

\* QTable.__getitem__
QGet(state, action) ==
    /\ call' = [op |-> "get", state |-> state, action |-> action]
    /\ \E res \in {getitem(table, state, action)} :
           /\ table' = res.table
           /\ ret' = Return(res.value)
    /\ UNCHANGED <<file, saved>>

\* QTable.__setitem__
QSet(state, action, val) ==
    /\ call' = [op |-> "set", state |-> state, action |-> action, val |-> val]
    /\ \E res \in {setitem(table, state, action, val)} :
           /\ table' = res.table
           /\ ret' = IF res.raised # None THEN Raise(The(res.raised))
                     ELSE Return("None")
    /\ UNCHANGED <<file, saved>>

\* QTable.save
QSave ==
    /\ call' = [op |-> "save"]
    /\ file' = Some(dumps(table))
    /\ saved' = Some(table)
    /\ ret' = Return("None")
    /\ UNCHANGED table

\* QTable.load: open(name, "rb") raises when there is no file.
QLoad ==
    /\ call' = [op |-> "load"]
    /\ IF file = None
       THEN /\ ret' = Raise("FileNotFoundError")
            /\ UNCHANGED table
       ELSE /\ table' = loaded(table, The(file))
            /\ ret' = Return("None")
    /\ UNCHANGED <<file, saved>>

\* QTable.__init__, with no file written yet
QInit ==
    /\ table = empty_dict
    /\ file = None
    /\ saved = None

----------------------------------------------------------------------------
(* The policies.                                                           *)

\* A slip: every cell taken for available.
get_available_actions_all(state) == RowMajor(height(state), width(state)) \o <<>>

\* Policy.get_available_actions: the empty cells, in row-major order.
get_available_actions(state) == where(state, 0)

\* What np.random.randint(len(available_actions)) and random.choice can draw: an
\* index of available_actions (0 alone when there is none to draw from).
Draws(state) ==
    0 .. (IF Len(get_available_actions(state)) = 0 THEN 0
          ELSE Len(get_available_actions(state)) - 1)

\* RandomPolicy.decide with idx drawn: what it raised or the move it returns.
random_decide(state, idx) ==
    LET available_actions == get_available_actions(state)
    IN  IF Len(available_actions) = 0
        THEN [raised |-> Some("AssertionError: No empty place!")]
        ELSE [raised |-> None, move |-> available_actions[idx + 1]]

\* RandomPolicy.decide
RandomDecide(state) ==
    /\ call' = [op |-> "RandomPolicy.decide", state |-> state]
    /\ \E idx \in Draws(state) :
       \E res \in {random_decide(state, idx)} :
           ret' = IF res.raised # None THEN Raise(The(res.raised))
                  ELSE Return(res.move)
    /\ UNCHANGED <<table, mode, updates>>

\* A slip: every value read is set back to the default.
RECURSIVE read_all_resetting(_, _, _, _)
read_all_resetting(t, state, actions, n) ==
    IF n > Len(actions) THEN t
    ELSE LET t1 == getitem(t, state, actions[n]).table
         IN  read_all_resetting(
                 put(t1, _encode_state(state),
                     put(t1[_encode_state(state)], actions[n], initial_val)),
                 state, actions, n + 1)

\* The table after self.q_table[state, a] was read for the actions from the
\* n-th on.
RECURSIVE read_all(_, _, _, _)
read_all(t, state, actions, n) ==
    IF n > Len(actions) THEN t
    ELSE read_all(getitem(t, state, actions[n]).table, state, actions, n + 1)

\* A slip: the last of the largest instead of the first.
RECURSIVE argmax_last(_, _, _)
argmax_last(keys, n, best) ==
    IF n > Len(keys) THEN best
    ELSE argmax_last(keys, n + 1, IF greater(keys[best], keys[n]) THEN best ELSE n)

\* max(iterable, key=...): the index of the first of the largest keys, with
\* best the index of the largest among the first n - 1.
RECURSIVE argmax(_, _, _)
argmax(keys, n, best) ==
    IF n > Len(keys) THEN best
    ELSE argmax(keys, n + 1, IF greater(keys[n], keys[best]) THEN n ELSE best)

\* The values self.q_table[state, a] of the actions, read from a table that
\* holds them all.
q_values(t, state, actions) ==
    [i \in 1 .. Len(actions) |-> t[_encode_state(state)][actions[i]]] \o <<>>

\* QLearningPolicy.decide on table t in mode m; explore is
\* np.random.rand() < self.epsilon and idx what random.choice draws: what it
\* raised or the move it returns, and the table it leaves.
decide(t, m, state, explore, idx) ==
    LET available_actions == get_available_actions(state)
    IN  IF Len(available_actions) = 0
        THEN [raised |-> Some("IndexError"), table |-> t]
        ELSE IF m = "train" /\ explore
        THEN [raised |-> None, move |-> available_actions[idx + 1], table |-> t]
        ELSE LET t2 == read_all(t, state, available_actions, 1)
             IN  [raised |-> None,
                  move |-> available_actions[
                               argmax(q_values(t2, state, available_actions), 2, 1)],
                  table |-> t2]

\* QLearningPolicy.decide
Decide(state, explore) ==
    /\ call' = [op |-> "QLearningPolicy.decide", state |-> state,
                explored |-> (mode = "train" /\ explore)]
    /\ \E idx \in Draws(state) :
       \E res \in {decide(table, mode, state, explore, idx)} :
           /\ table' = res.table
           /\ ret' = IF res.raised # None THEN Raise(The(res.raised))
                     ELSE Return(res.move)
    /\ UNCHANGED <<mode, updates>>

\* QLearningPolicy.set_mode
SetMode(m) ==
    /\ call' = [op |-> "set_mode", mode |-> m]
    /\ IF m \in {"train", "eval"}
       THEN /\ mode' = m
            /\ ret' = Return("None")
       ELSE /\ ret' = Raise("AssertionError")
            /\ UNCHANGED mode
    /\ UNCHANGED <<table, updates>>

\* A slip: update_q_table without the assertion of its first line.
update_refused_never(m) == FALSE

\* assert self.mode == "train"
update_refused(m) == m # "train"

\* A slip: the discount left out.
new_q_undiscounted(current_q, reward, max_next_q) ==
    add(current_q, mul(alpha, sub(add(Frac(reward, 1), max_next_q), current_q)))

\* new_q = current_q + self.alpha * (reward + self.gamma * max_next_q - current_q)
new_q(current_q, reward, max_next_q) ==
    add(current_q,
        mul(alpha, sub(add(Frac(reward, 1), mul(gamma, max_next_q)), current_q)))

\* max(self.q_table[next_state, a] for a in ...) over values that are not empty
max_of(keys) == keys[argmax(keys, 2, 1)]

\* QLearningPolicy.update_q_table: what it raised and the table it leaves.
update_q_table(t, m, state, action, reward, next_state) ==
    IF update_refused(m)
    THEN [raised |-> Some("AssertionError: Q table should not be updated during evaluation!"),
          table |-> t]
    ELSE LET current == getitem(t, state, action)
         IN  IF next_state = None
             THEN setitem(current.table, state, action,
                          new_q(current.value, reward, Frac(0, 1)))
             ELSE LET actions == get_available_actions(The(next_state))
                      t2 == read_all(current.table, The(next_state), actions, 1)
                  IN  IF Len(actions) = 0
                      THEN [raised |-> Some("ValueError"), table |-> current.table]
                      ELSE setitem(t2, state, action,
                                   new_q(current.value, reward,
                                         max_of(q_values(t2, The(next_state), actions))))

\* QLearningPolicy.update_q_table
UpdateQTable(state, action, reward, next_state) ==
    /\ updates < MaxUpdates
    /\ updates' = updates + 1
    /\ call' = [op |-> "update_q_table", state |-> state, action |-> action,
                reward |-> reward, next_state |-> next_state]
    /\ \E res \in {update_q_table(table, mode, state, action, reward, next_state)} :
           /\ table' = res.table
           /\ ret' = IF res.raised # None THEN Raise(The(res.raised))
                     ELSE Return("None")
    /\ UNCHANGED mode

PStates == {Bmid, Bone, Bfull}
Rewards == {-1, 0, 1}

\* next_state of an update: None, a board with empty cells, a full board.
NextStates == {None, Some(Bmid), Some(Bfull)}

\* Tables a policy starts from: none saved, or one loaded from the file of an
\* earlier training (lines 201-203).
LoadedTables ==
    { empty_dict,
      put(empty_dict, _encode_state(Bmid),
          put(put(empty_dict, <<0, 1>>, Frac(1, 100)), <<1, 1>>, Frac(1, 100))),
      put(put(empty_dict, _encode_state(Bmid),
              put(put(empty_dict, <<1, 1>>, Frac(-1, 100)), <<2, 2>>, Frac(1, 100))),
          _encode_state(Bone), put(empty_dict, <<1, 1>>, Frac(1, 100))) }

\* QLearningPolicy.__init__
PInit ==
    /\ table \in LoadedTables
    /\ mode = "eval"
    /\ updates = 0


----------------------------------------------------------------------------
(* train.py: run_test and run_train.  What a policy decides depends on its *)
(* table and on random draws; here decide returns any of the empty cells   *)
(* of the state it is given and raises when there is none.  A call of      *)
(* update_q_table is recorded in updated; the table is not followed.       *)

\* The policies handed to a run: what run_train reads of them.
Policies == {"RandomPolicy", "QLearningPolicy eval", "QLearningPolicy train"}

\* isinstance(policy, QLearningPolicy) and policy.mode == "train"
trains(policy) == policy = "QLearningPolicy train"

\* p1_state, info = board.reset() and the lines before the loop
Run(run, policy1, policy2) ==
    /\ pc = "idle"
    /\ reset
    /\ pc' = "loop"
    /\ kind' = run
    /\ p1_state' = Some(The(ret'.value).state)
    /\ info' = The(ret'.value).info
    /\ train_p1' = (run = "run_train" /\ trains(policy1))
    /\ train_p2' = (run = "run_train" /\ trains(policy2))
    /\ UNCHANGED <<p2_state, rewards, transaction_p1, transaction_p2, updated>>

\* A slip: a loop without the break of its last lines.
loop_exit_never(t) == FALSE

\* if terminated: break
loop_exit(t) == t

\* A slip: the update of lines 82-83 made after every move of the side.
update_own_always(t) == TRUE

\* A slip: lines 82-83 left out.
update_own_never(t) == FALSE

\* if terminated: policy.update_q_table(**transaction) of the side that moved
update_own(t) == t

\* A slip: the reward of the other side's step not added.
closed_without_reward(transaction, r, t, state) ==
    [transaction EXCEPT !.next_state = IF ~t THEN Some(state) ELSE @]

\* A slip: the next state filled in also when the game is over.
closed_always_next(transaction, r, t, state) ==
    [transaction EXCEPT !.reward = @ + r, !.next_state = Some(state)]

\* The other side's transaction once this side has moved: the reward added, the
\* next state filled in unless the game is over.
closed(transaction, r, t, state) ==
    [transaction EXCEPT !.reward = @ + r,
                        !.next_state = IF ~t THEN Some(state) ELSE @]

\* policy.decide(state) raised: the run is left with the exception.
DecideRaised(state) ==
    /\ pc' = "raised"
    /\ call' = [op |-> "decide", state |-> state]
    /\ ret' = Raise("decide")
    /\ UNCHANGED <<board, counter, on_move, terminated, played, played_win,
                   kind, train_p1, train_p2, p1_state, p2_state, rewards,
                   info, transaction_p1, transaction_p2, updated>>

\* Lines 69-83: the pass with info["on_move"] == 1 once policy1 has decided on
\* action.
P1Play(action) ==
    /\ step(1, action)
    /\ IF ret'.raised # None
       THEN /\ pc' = "raised"
            /\ UNCHANGED <<kind, train_p1, train_p2, p1_state, p2_state,
                           rewards, info, transaction_p1, transaction_p2,
                           updated>>
       ELSE \E r \in {The(ret'.value)} :
            /\ p2_state' = Some(r.state)
            /\ rewards' = r.reward
            /\ info' = r.info
            /\ transaction_p2' =
                  IF train_p2 /\ transaction_p2 # None
                  THEN Some(closed(The(transaction_p2), r.reward[2],
                                   r.terminated, r.state))
                  ELSE transaction_p2
            /\ transaction_p1' =
                  IF train_p1
                  THEN Some([state |-> The(p1_state),
                             action |-> action,
                             reward |-> r.reward[1], next_state |-> None])
                  ELSE transaction_p1
            /\ updated' =
                  (IF train_p2 /\ transaction_p2 # None
                   THEN << <<-1, The(transaction_p2')>> >> ELSE <<>>)
                  \o (IF train_p1 /\ update_own(r.terminated)
                      THEN << <<1, The(transaction_p1')>> >> ELSE <<>>)
            /\ pc' = IF loop_exit(r.terminated) THEN "done" ELSE "loop"
            /\ UNCHANGED <<kind, train_p1, train_p2, p1_state>>

\* One pass of the loop with info["on_move"] == 1
P1Move ==
    /\ pc = "loop"
    /\ info.on_move = 1
    /\ \E available_actions \in {get_available_actions(The(p1_state))} :
         IF Len(available_actions) = 0
         THEN DecideRaised(The(p1_state))
         ELSE \E idx \in 1 .. Len(available_actions) :
                  P1Play(available_actions[idx])

\* Lines 87-102: the pass with info["on_move"] == -1 once policy2 has decided on
\* action.
P2Play(action) ==
    /\ step(-1, action)
    /\ IF ret'.raised # None
       THEN /\ pc' = "raised"
            /\ UNCHANGED <<kind, train_p1, train_p2, p1_state, p2_state,
                           rewards, info, transaction_p1, transaction_p2,
                           updated>>
       ELSE \E r \in {The(ret'.value)} :
            /\ p1_state' = Some(r.state)
            /\ rewards' = r.reward
            /\ info' = r.info
            /\ transaction_p1' =
                  IF train_p1 /\ transaction_p1 # None
                  THEN Some(closed(The(transaction_p1), r.reward[1],
                                   r.terminated, r.state))
                  ELSE transaction_p1
            /\ transaction_p2' =
                  IF train_p2
                  THEN Some([state |-> The(p2_state),
                             action |-> action,
                             reward |-> r.reward[2], next_state |-> None])
                  ELSE transaction_p2
            /\ updated' =
                  (IF train_p1 /\ transaction_p1 # None
                   THEN << <<1, The(transaction_p1')>> >> ELSE <<>>)
                  \o (IF train_p2 /\ update_own(r.terminated)
                      THEN << <<-1, The(transaction_p2')>> >> ELSE <<>>)
            /\ pc' = IF loop_exit(r.terminated) THEN "done" ELSE "loop"
            /\ UNCHANGED <<kind, train_p1, train_p2, p2_state>>

\* One pass of the loop with info["on_move"] == -1
P2Move ==
    /\ pc = "loop"
    /\ info.on_move = -1
    /\ \E available_actions \in {get_available_actions(The(p2_state))} :
         IF Len(available_actions) = 0
         THEN DecideRaised(The(p2_state))
         ELSE \E idx \in 1 .. Len(available_actions) :
                  P2Play(available_actions[idx])

\* A slip: the second side's reward returned.
winner_of_second == rewards[2]

\* winner = p1_reward; return winner
winner == rewards[1]

\* Before run_test or run_train is called
GInit ==
    /\ pc = "idle"
    /\ kind = "none"
    /\ train_p1 = FALSE
    /\ train_p2 = FALSE
    /\ p1_state = None
    /\ p2_state = None
    /\ rewards = None
    /\ info = None
    /\ transaction_p1 = None
    /\ transaction_p2 = None
    /\ updated = <<>>
    /\ plies = [side \in Players |-> 0]
    /\ calls = [side \in Players |-> 0]
    /\ moved = [side \in Players |-> None]
    /\ learnt = <<>>

\* The update_q_table calls of the log made on the policy of side.
calls_on(log, side) == Cardinality({i \in 1 .. Len(log) : log[i][1] = side})

\* What a pass of the loop adds to plies, calls and moved: read off the engine's
\* board before the step, the call made on it, what it returned, and the log.
Seen ==
    IF call'.op = "step" /\ ret'.raised = None
    THEN /\ plies' = [plies EXCEPT ![call'.player] = @ + 1]
         /\ calls' = [side \in Players |-> calls[side] + calls_on(updated', side)]
         /\ moved' =
               [moved EXCEPT ![call'.player] =
                   IF (call'.player = 1 /\ train_p1) \/ (call'.player = -1 /\ train_p2)
                   THEN Some([state |-> board, action |-> call'.position,
                              reward |-> The(ret'.value).reward[
                                             IF call'.player = 1 THEN 1 ELSE 2]])
                   ELSE @]
    ELSE UNCHANGED <<plies, calls, moved>>

----------------------------------------------------------------------------
(* The policies as objects.  A QTable is an object of the heap, named by   *)
(* its place in it; a QLearningPolicy holds the name of its q_table, so    *)
(* that two policies holding one table would both see what either writes.  *)

\* No policy built: the games above run whatever the policies decide.
NoPolicies == heap = <<>> /\ p1 = None /\ p2 = None

\* RandomPolicy.__init__
RandomPolicy(h, marker) ==
    [heap |-> h, policy |-> [class |-> "RandomPolicy", marker |-> marker]]

\* A slip: one store for the tables of all policies.
QLearningPolicy_one_store(h, marker, stored) ==
    [heap |-> IF h = <<>>
              THEN <<IF stored = None THEN empty_dict
                     ELSE loaded(empty_dict, The(stored))>>
              ELSE h,
     policy |-> [class |-> "QLearningPolicy", marker |-> marker,
                 mode |-> "eval", q_table |-> 1]]

\* QLearningPolicy.__init__: a new QTable with an empty dict, loaded from the
\* file of the marker when there is one (stored is what the file holds).
QLearningPolicy(h, marker, stored) ==
    [heap |-> Append(h, IF stored = None THEN empty_dict
                        ELSE loaded(empty_dict, The(stored))),
     policy |-> [class |-> "QLearningPolicy", marker |-> marker,
                 mode |-> "eval", q_table |-> Len(h) + 1]]

\* The board after FIRST has taken the corner (0, 0).
Bcorner == << <<1, 0, 0>>, <<0, 0, 0>>, <<0, 0, 0>> >>

\* What the file of a marker holds: nothing (there is none), or the table of an
\* earlier training that values the centre on the board its side moves first on.
Stored(marker) ==
    { None,
      Some(dumps(put(empty_dict,
                     _encode_state(IF marker = 1 THEN zeros ELSE Bcorner),
                     put(empty_dict, <<1, 1>>, Frac(1, 100))))) }

Classes == {"RandomPolicy", "QLearningPolicy"}

\* Agent(marker=marker, board_size=board_size)
Agent(h, class, marker, stored) ==
    IF class = "RandomPolicy" THEN RandomPolicy(h, marker)
    ELSE QLearningPolicy(h, marker, stored)

\* p1 = Agent(marker=1), then p2 = Agent(marker=-1)
Built ==
    \E class1 \in Classes, class2 \in Classes,
       stored1 \in Stored(1), stored2 \in Stored(-1) :
        \E made1 \in {Agent(<<>>, class1, 1, stored1)} :
        \E made2 \in {Agent(made1.heap, class2, -1, stored2)} :
            /\ heap = made2.heap
            /\ p1 = made1.policy
            /\ p2 = made2.policy

\* The policy of a side.
policy_of(side) == IF side = 1 THEN p1 ELSE p2

\* p.set_mode(m) on the policy of side
TSetMode(side, m) ==
    /\ pc = "idle"
    /\ policy_of(side).class = "QLearningPolicy"
    /\ m \in {"train", "eval"}
    /\ p1' = IF side = 1 THEN [p1 EXCEPT !.mode = m] ELSE p1
    /\ p2' = IF side = -1 THEN [p2 EXCEPT !.mode = m] ELSE p2
    /\ UNCHANGED <<heap, learnt>>

\* What run_train reads of a policy.
described(p) ==
    IF p.class = "RandomPolicy" THEN "RandomPolicy"
    ELSE IF p.mode = "train" THEN "QLearningPolicy train"
    ELSE "QLearningPolicy eval"

\* run_test(board, p1, p2) or run_train(board, p1, p2) entered
TRun(run) ==
    /\ Run(run, described(p1), described(p2))
    /\ UNCHANGED <<plies, calls, moved, tvars>>

\* The draws followed: the first MaxChoice of those there are.
Drawn(state) == Draws(state) \cap (0 .. MaxChoice - 1)

\* p.decide(state) on the heap h: what it raised or the move it returns, and the
\* heap it leaves.
decided(h, p, state, explore, idx) ==
    IF p.class = "RandomPolicy"
    THEN [heap |-> h] @@ random_decide(state, idx)
    ELSE LET res == decide(h[p.q_table], p.mode, state, explore, idx)
         IN  [heap |-> [h EXCEPT ![p.q_table] = res.table]] @@ res

\* The update_q_table calls of the log from the n-th on, made one after the
\* other on the heap h until one raises: the heap they leave and, for each call,
\* the heap before and after it.
RECURSIVE learn(_, _, _, _)
learn(h, log, n, made) ==
    IF n > Len(log) THEN [heap |-> h, log |-> made]
    ELSE LET p == policy_of(log[n][1])
             u == log[n][2]
             res == update_q_table(h[p.q_table], p.mode, u.state, u.action,
                                   u.reward, u.next_state)
             after == [h EXCEPT ![p.q_table] = res.table]
             entry == [side |-> log[n][1], state |-> u.state, action |-> u.action,
                       raised |-> res.raised, before |-> h, after |-> after]
         IN  IF res.raised # None
             THEN [heap |-> after, log |-> Append(made, entry)]
             ELSE learn(after, log, n + 1, Append(made, entry))

\* No update_q_table call of the last pass raised: the run goes on.
Learning == \A i \in 1 .. Len(learnt) : learnt[i].raised = None

\* One pass of the loop with info["on_move"] == 1, policy1 being p1
T1Move ==
    /\ pc = "loop"
    /\ info.on_move = 1
    /\ Learning
    /\ \E explore \in BOOLEAN, idx \in Drawn(The(p1_state)) :
       \E d \in {decided(heap, p1, The(p1_state), explore, idx)} :
           IF d.raised # None
           THEN /\ DecideRaised(The(p1_state))
                /\ heap' = d.heap
                /\ UNCHANGED <<plies, calls, moved, p1, p2, learnt>>
           ELSE /\ P1Play(d.move)
                /\ Seen
                /\ \E res \in {learn(d.heap, updated', 1, <<>>)} :
                       heap' = res.heap /\ learnt' = res.log
                /\ UNCHANGED <<p1, p2>>

\* One pass of the loop with info["on_move"] == -1, policy2 being p2
T2Move ==
    /\ pc = "loop"
    /\ info.on_move = -1
    /\ Learning
    /\ \E explore \in BOOLEAN, idx \in Drawn(The(p2_state)) :
       \E d \in {decided(heap, p2, The(p2_state), explore, idx)} :
           IF d.raised # None
           THEN /\ DecideRaised(The(p2_state))
                /\ heap' = d.heap
                /\ UNCHANGED <<plies, calls, moved, p1, p2, learnt>>
           ELSE /\ P2Play(d.move)
                /\ Seen
                /\ \E res \in {learn(d.heap, updated', 1, <<>>)} :
                       heap' = res.heap /\ learnt' = res.log
                /\ UNCHANGED <<p1, p2>>

----------------------------------------------------------------------------
(* The specifications.                                                     *)

vars == <<evars, qvars, gvars>>

\* The engine alone, driven by any caller.
Next ==
    \/ reset /\ UNCHANGED <<qvars, gvars>>
    \/ \E player \in Players, position \in Positions :
           step(player, position) /\ UNCHANGED <<qvars, gvars>>

\* A policy that nothing is asked of.
PIdle == mode = "eval" /\ updates = 0

\* An engine that nothing is asked of.
EIdle == UNCHANGED <<board, counter, on_move, terminated, played, played_win, gvars>>

SpecInit == Init /\ QInit /\ PIdle /\ GInit /\ NoPolicies

Spec == SpecInit /\ [][Next]_vars

\* A QTable alone, read, written, saved and loaded by any caller.
QNext ==
    \/ \E state \in QStates, action \in QActions :
           QGet(state, action) /\ EIdle /\ UNCHANGED <<mode, updates>>
    \/ \E state \in QStates, action \in QActions, val \in QVals :
           QSet(state, action, val) /\ EIdle /\ UNCHANGED <<mode, updates>>
    \/ QSave /\ EIdle /\ UNCHANGED <<mode, updates>>
    \/ QLoad /\ EIdle /\ UNCHANGED <<mode, updates>>

QTableInit == Init /\ QInit /\ PIdle /\ GInit /\ NoPolicies

QTableSpec == QTableInit /\ [][QNext]_vars

\* The policies alone, asked to decide and to learn by any caller.
PNext ==
    \/ \E state \in PStates :
           RandomDecide(state) /\ EIdle /\ UNCHANGED <<file, saved>>
    \/ \E state \in PStates, explore \in BOOLEAN :
           Decide(state, explore) /\ EIdle /\ UNCHANGED <<file, saved>>
    \/ \E m \in {"train", "eval", "test"} :
           SetMode(m) /\ EIdle /\ UNCHANGED <<file, saved>>
    \/ \E state \in QStates, action \in QActions, reward \in Rewards,
          next_state \in NextStates :
           UpdateQTable(state, action, reward, next_state)
           /\ EIdle /\ UNCHANGED <<file, saved>>

PolicyInit == Init /\ file = None /\ saved = None /\ PInit /\ GInit /\ NoPolicies

\* One game run by run_test or run_train, whatever the policies decide.
GNext ==
    \/ \E run \in {"run_test", "run_train"}, policy1 \in Policies, policy2 \in Policies :
           Run(run, policy1, policy2) /\ UNCHANGED <<qvars, plies, calls, moved, tvars>>
    \/ P1Move /\ Seen /\ UNCHANGED <<qvars, tvars>>
    \/ P2Move /\ Seen /\ UNCHANGED <<qvars, tvars>>

GameInit == Init /\ QInit /\ PIdle /\ GInit /\ NoPolicies

GameSpec == GameInit /\ [][GNext]_vars

\* run_test or run_train entered.
Start ==
    \E run \in {"run_test", "run_train"}, policy1 \in Policies, policy2 \in Policies :
        Run(run, policy1, policy2) /\ UNCHANGED <<qvars, plies, calls, moved, tvars>>

\* One pass of the loop.
Pass == (P1Move \/ P2Move) /\ Seen /\ UNCHANGED <<qvars, tvars>>

\* Where a pass can be made: a pass asks for pc = "loop" and one of the two sides
\* on move, and nothing else; it changes pc or counter.
CanPass == pc = "loop" /\ info.on_move \in {1, -1}

\* The runs are sequential code: a step that can be made is made.  For the pass
\* this is WF_vars(Pass) with ENABLED <<Pass>>_vars written as CanPass.
FairGameSpec ==
    /\ GameSpec
    /\ WF_vars(Start)
    /\ ([]<>~CanPass \/ []<><<Pass>>_vars)

PolicySpec == PolicyInit /\ [][PNext]_vars

\* The games of two policies built as the drivers build them, each with the
\* table of its own, the random draws among the first MaxChoice.
TNext ==
    \/ \E side \in Players, m \in {"train", "eval"} :
           TSetMode(side, m)
           /\ UNCHANGED <<evars, qvars, pc, kind, train_p1, train_p2, p1_state,
                          p2_state, rewards, info, transaction_p1, transaction_p2,
                          updated, plies, calls, moved>>
    \/ \E run \in {"run_test", "run_train"} : TRun(run) /\ UNCHANGED qvars
    \/ T1Move /\ UNCHANGED qvars
    \/ T2Move /\ UNCHANGED qvars

TrainInit == Init /\ QInit /\ PIdle /\ GInit /\ Built

TrainSpec == TrainInit /\ [][TNext]_vars

\* Win detection alone, as a function of the grid and of win_len.
CheckNext ==
    \E length \in Lengths : CheckBoard(length) /\ UNCHANGED <<qvars, gvars>>

CheckInit == AnyGrid /\ QInit /\ PIdle /\ GInit /\ NoPolicies

CheckSpec == CheckInit /\ [][CheckNext]_vars

----------------------------------------------------------------------------
(* What the properties below speak of, stated without the engine's own     *)
(* win detection.                                                          *)

\* The windows of win_len cells in a row, a column or a diagonal.
Windows(L) ==
        { {<<r, c + i>> : i \in 0 .. L - 1} : r \in 0 .. Rows - 1, c \in 0 .. Cols - L }
        \cup
        { {<<r + i, c>> : i \in 0 .. L - 1} : r \in 0 .. Rows - L, c \in 0 .. Cols - 1 }
        \cup
        { {<<r + i, c + i>> : i \in 0 .. L - 1} : r \in 0 .. Rows - L, c \in 0 .. Cols - L }
        \cup
        { {<<r + i, c + L - 1 - i>> : i \in 0 .. L - 1} :
              r \in 0 .. Rows - L, c \in 0 .. Cols - L }

\* The windows of the engine's win_len.
Lines == Windows(win_len)

\* Side m holds every cell of some window of b.
HasLine(b, m) == \E l \in Lines : \A p \in l : at(b, p) = m

\* Side m holds every cell of some window of b through cell c.
HasLineThrough(b, m, c) == \E l \in Lines : c \in l /\ \A p \in l : at(b, p) = m

NoEmpty(b) == \A p \in Cells : at(b, p) # 0
Marked(b) == Cardinality({p \in Cells : at(b, p) # 0})

\* The cell a position names, indices below zero counted from the end.
CellOf(position) == <<position[1] % Rows, position[2] % Cols>>

\* The position names a cell: each index within the axis, or below zero and
\* within it counted from the end.
Reaches(position) ==
    position[1] \in -Rows .. Rows - 1 /\ position[2] \in -Cols .. Cols - 1

StepCalled == call.op = "step"
StepReturned == call.op = "step" /\ ret.raised = None
Returned == The(ret.value)
Impossible == "AssertionError: Something impossible happened!"

\* C1: once terminated is true, every step fails and places no marker until
\* reset is called.
C1_TerminatedAbsorbing ==
    [][terminated /\ call'.op = "step"
          => ret'.raised # None /\ board' = board /\ terminated']_vars

\* C2: on every board reachable by reset and step calls, win detection never
\* finds a line for both sides, so its both-winners assertion never fires.
C2_NeverBothWinners ==
    /\ ~(HasLine(board, 1) /\ HasLine(board, -1))
    /\ ret.raised # Some(Impossible)

\* C3: step(player, position) fails whenever player is not the side on move, and
\* fails whenever the cell at position is already occupied.
C3_StepRefusesWrongTurnAndOccupied ==
    [][call'.op = "step"
       /\ \/ call'.player # on_move
          \/ /\ Reaches(call'.position)
             /\ at(board, CellOf(call'.position)) # 0
          => ret'.raised # None]_vars

\* C3 witness: a refused step by the side not on move, aimed at an occupied cell.
C3_Witness ==
    /\ StepCalled
    /\ call.player # on_move
    /\ call.position \in Cells
    /\ at(board, call.position) # 0
    /\ ret.raised # None

\* C4: step fails for every position with a row or column index outside the
\* grid, negative indices included, and places no marker for it.
C4_OutOfBoundsRefused ==
    [][call'.op = "step" /\ call'.position \notin Cells
          => ret'.raised # None /\ board' = board]_vars

\* C5: a step that returns changes exactly one cell, the cell at position, from
\* EMPTY to the player's marker, leaves every other cell as it was, and flips
\* on_move.
C5_StepPlacesOneMarker ==
    [][call'.op = "step" /\ ret'.raised = None
          => /\ at(board, CellOf(call'.position)) = 0
             /\ at(board', CellOf(call'.position)) = call'.player
             /\ \A p \in Cells \ {CellOf(call'.position)} :
                    at(board', p) = at(board, p)
             /\ on_move = call'.player
             /\ on_move' = -on_move]_vars

\* C5 witness: the second side's step has returned and the first is on move again.
C5_Witness ==
    /\ StepReturned
    /\ call.player = -1
    /\ on_move = 1
    /\ counter = 2

\* C6: every step that returns gives (r1, r2) with r2 = -r1 and r1 in {1, -1, 0},
\* r1 = 1 exactly when the first side completed a line with this move, r1 = -1
\* exactly when the second side did, and r1 = 0 otherwise.
C6_RewardForTheWinningMove ==
    StepReturned =>
        LET r1 == Returned.reward[1]
            r2 == Returned.reward[2]
            c == CellOf(call.position)
        IN  /\ r2 = -r1
            /\ r1 \in {1, -1, 0}
            /\ r1 = 1 <=> (call.player = 1 /\ HasLineThrough(board, 1, c))
            /\ r1 = -1 <=> (call.player = -1 /\ HasLineThrough(board, -1, c))

\* C7: counter equals the number of non-empty cells in every state, every step
\* that returns raises it by exactly 1, and reset sets it to 0.
C7_CounterCountsMarkers ==
    /\ [](counter = Marked(board) /\ (call.op = "reset" => counter = 0))
    /\ [][call'.op = "step" /\ ret'.raised = None
             => counter' = counter + 1]_vars

\* C7 witness: steps have returned until the count reached the whole grid.
C7_Witness == StepReturned /\ counter = Rows * Cols

\* C8: after every step that returns, the terminated flag returned and the one
\* stored are true exactly when some side has a complete line or no cell is empty.
C8_TerminatedIffLineOrFull ==
    StepReturned =>
        /\ Returned.terminated = terminated
        /\ terminated <=>
              (HasLine(board, 1) \/ HasLine(board, -1) \/ NoEmpty(board))

\* C8 witness: a step returned terminated on a board with a line and empty cells.
C8_Witness ==
    /\ StepReturned
    /\ terminated
    /\ HasLine(board, -1)
    /\ ~NoEmpty(board)

\* C9: a step that fills the last empty cell and leaves no line returns
\* terminated = true, the reward pair (0, 0) and no winning coordinates.
C9_FullBoardWithoutLineIsDraw ==
    (StepReturned /\ NoEmpty(board) /\ ~HasLine(board, 1) /\ ~HasLine(board, -1))
        => /\ Returned.terminated
           /\ Returned.reward = <<0, 0>>
           /\ Returned.info.coordinates = None

\* C9 witness: a step has filled the grid and no side has a line.
C9_Witness ==
    /\ StepReturned
    /\ NoEmpty(board)
    /\ ~HasLine(board, 1)
    /\ ~HasLine(board, -1)

\* C10 as claimed: played along DrawLine after reset, no step before the ninth
\* reports terminated, and the ninth returns terminated = true with (0, 0).
C10_DrawLineAsClaimed ==
    /\ played \in 1 .. 8 => StepReturned /\ ~Returned.terminated
    /\ played = 9 =>
          StepReturned /\ Returned.terminated /\ Returned.reward = <<0, 0>>

\* C10 amended: played along DrawLine after reset, the first six steps return
\* terminated = false with (0, 0), and the seventh, FIRST at (2, 0), completes the
\* anti-diagonal (0, 2), (1, 1), (2, 0) and returns terminated = true with (1, -1).
C10_DrawLineWinsAtSeven ==
    /\ played \in 1 .. 6 =>
          /\ StepReturned
          /\ ~Returned.terminated
          /\ Returned.reward = <<0, 0>>
    /\ played = 7 =>
          /\ StepReturned
          /\ Returned.terminated
          /\ Returned.reward = <<1, -1>>
          /\ Returned.info.coordinates # None
          /\ {The(Returned.info.coordinates)[i] :
                 i \in 1 .. Len(The(Returned.info.coordinates))}
                = {<<0, 2>>, <<1, 1>>, <<2, 0>>}

\* C10 witness: the first seven moves of DrawLine have been played.
C10_Witness == played = 7 /\ StepReturned

\* C11: played along WinLine after reset, the first four steps return
\* terminated = false with (0, 0), and the fifth returns terminated = true, the
\* reward pair (1, -1) and exactly the winning coordinates (0,0), (0,1), (0,2).
C11_WinLineWinsAtFive ==
    /\ played_win \in 1 .. 4 =>
          /\ StepReturned
          /\ ~Returned.terminated
          /\ Returned.reward = <<0, 0>>
    /\ played_win = 5 =>
          /\ StepReturned
          /\ Returned.terminated
          /\ Returned.reward = <<1, -1>>
          /\ Returned.info.coordinates # None
          /\ {The(Returned.info.coordinates)[i] :
                 i \in 1 .. Len(The(Returned.info.coordinates))}
                = {<<0, 0>>, <<0, 1>>, <<0, 2>>}

\* C11 witness: the five moves of WinLine have been played.
C11_Witness == played_win = 5 /\ StepReturned

\* C12: from any state, reset leaves the grid all empty, on_move = FIRST,
\* counter = 0 and terminated = false, and returns that grid with on_move = FIRST
\* and no winning coordinates; a reset after a reset changes nothing.
C12_ResetRestoresTheStart ==
    /\ [](call.op = "reset" =>
            /\ \A p \in Cells : at(board, p) = 0
            /\ on_move = 1
            /\ counter = 0
            /\ ~terminated
            /\ ret.raised = None
            /\ \A p \in Cells : at(Returned.state, p) = 0
            /\ Returned.info.on_move = 1
            /\ Returned.info.coordinates = None)
    /\ [][call.op = "reset" /\ call'.op = "reset" => UNCHANGED vars]_vars

\* C12 witness: reset has just been called and has returned.
C12_Witness ==
    /\ call.op = "reset"
    /\ ret.raised = None
    /\ counter = 0
    /\ ~terminated

----------------------------------------------------------------------------
(* What the properties of the table and of the policies speak of.          *)

\* The empty cells of a state.
Empty(state) == {p \in Cells : at(state, p) = 0}

\* c comes before d, or is d, in row-major order.
RowMajorFirst(c, d) == c[1] < d[1] \/ (c[1] = d[1] /\ c[2] <= d[2])

\* The table t holds an entry for the key (state, action).
Has(t, state, action) ==
    /\ _encode_state(state) \in DOMAIN t
    /\ action \in DOMAIN t[_encode_state(state)]

\* Q(state, action) as t gives it: the entry, or the default where it has none.
Q(t, state, action) ==
    IF Has(t, state, action) THEN t[_encode_state(state)][action] ELSE initial_val

\* The keys a caller of the table can name.
Keys == QStates \X Cells

DecideCalled == call.op \in {"RandomPolicy.decide", "QLearningPolicy.decide"}

\* C14: decide of either policy, in either mode, returns an empty cell of state
\* when state has one, and fails when state has none.
C14_DecideReturnsAnEmptyCell ==
    DecideCalled =>
        IF Empty(call.state) = {}
        THEN ret.raised # None
        ELSE ret.raised = None /\ Returned \in Empty(call.state)

\* C14 witness: the Q-learning policy, in train mode, has decided on the board
\* with one empty cell.
C14_Witness ==
    /\ call.op = "QLearningPolicy.decide"
    /\ mode = "train"
    /\ call.state = Bone
    /\ ret.raised = None
    /\ Returned = <<1, 1>>

\* C15: a Q-learning decide that does not explore returns an empty cell whose
\* Q(state, cell) no empty cell exceeds, and among the empty cells of that value
\* the first in row-major order.
C15_GreedyTakesTheFirstLargest ==
    [][call'.op = "QLearningPolicy.decide" /\ ~call'.explored /\ ret'.raised = None
         => LET s == call'.state
                c == The(ret'.value)
            IN  /\ c \in Empty(s)
                /\ \A d \in Empty(s) :
                      /\ ~greater(Q(table, s, d), Q(table, s, c))
                      /\ Q(table, s, d) = Q(table, s, c) => RowMajorFirst(c, d)]_vars

\* C15 witness: decide has returned the first of two cells that share the
\* largest value, ahead of a cell of smaller value.
C15_Witness ==
    /\ call.op = "QLearningPolicy.decide"
    /\ ~call.explored
    /\ call.state = Bmid
    /\ ret.raised = None
    /\ Returned = <<0, 1>>
    /\ Q(table, Bmid, <<1, 1>>) = Q(table, Bmid, <<0, 1>>)
    /\ greater(Q(table, Bmid, <<0, 1>>), Q(table, Bmid, <<2, 2>>))

\* The largest of a finite, non-empty set of values.
Largest(S) == CHOOSE v \in S : \A w \in S : ~greater(w, v)

\* C16: an update that returns leaves Q(state, action) at
\* current_q + alpha * (reward + gamma * max_next_q - current_q), which is
\* (1 - alpha) * current_q + alpha * reward + alpha * gamma * max_next_q, with
\* max_next_q the largest Q(next_state, a') over the empty cells a' of
\* next_state, and 0 when next_state is None.
C16_UpdateSetsTheBlend ==
    [][call'.op = "update_q_table" /\ ret'.raised = None
         => LET s == call'.state
                a == call'.action
                current_q == Q(table, s, a)
                max_next_q ==
                    IF call'.next_state = None THEN Frac(0, 1)
                    ELSE Largest({Q(table, The(call'.next_state), c) :
                                     c \in Empty(The(call'.next_state))})
            IN  /\ Has(table', s, a)
                /\ Q(table', s, a)
                     = add(add(mul(sub(Frac(1, 1), alpha), current_q),
                               mul(alpha, Frac(call'.reward, 1))),
                           mul(mul(alpha, gamma), max_next_q))]_vars

\* C16 witness: an update with reward 0 has bootstrapped from a next state whose
\* largest value is 1/100: the entry, 0 before, is now 0.01 * 0.96 * 0.01.
C16_Witness ==
    /\ call.op = "update_q_table"
    /\ ret.raised = None
    /\ call.state = Bone
    /\ call.reward = 0
    /\ call.next_state = Some(Bmid)
    /\ Q(table, call.state, call.action) = Frac(96, 1000000)

\* C17: update_q_table called while mode is not train fails and leaves the table
\* as it was.
C17_UpdateOnlyInTrainMode ==
    [][call'.op = "update_q_table" /\ mode # "train"
         => ret'.raised # None /\ table' = table]_vars

\* C17 witness: update_q_table was called in eval mode on a table that holds
\* entries, and raised.
C17_Witness ==
    /\ call.op = "update_q_table"
    /\ mode = "eval"
    /\ ret.raised # None
    /\ table # empty_dict

\* C18: get on a key the table lacks returns the default and stores it under the
\* key; get on a key the table holds returns the entry; either way every other
\* key is held, or not held, as before, with its value.
C18_GetStoresTheDefault ==
    [][call'.op = "get"
         => LET s == call'.state
                a == call'.action
            IN  /\ ret'.raised = None
                /\ Has(table', s, a)
                /\ The(ret'.value) = Q(table', s, a)
                /\ The(ret'.value) = Q(table, s, a)
                /\ \A k \in Keys \ {<<s, a>>} :
                      /\ Has(table', k[1], k[2]) <=> Has(table, k[1], k[2])
                      /\ Q(table', k[1], k[2]) = Q(table, k[1], k[2])]_vars

\* C18 witness: get has returned and stored the default for a key, in a table
\* that holds another value under another key of the same state.
C18_Witness ==
    /\ call.op = "get"
    /\ ret.raised = None
    /\ call.state = Bmid
    /\ call.action = <<0, 1>>
    /\ Returned = initial_val
    /\ Has(table, Bmid, <<0, 1>>)
    /\ Has(table, Bmid, <<1, 1>>)
    /\ Q(table, Bmid, <<1, 1>>) = Frac(1, 1)

\* C19: set succeeds for every key, also for a state the table has no entry for,
\* and leaves value under the key.
C19_SetSucceedsForEveryKey ==
    [][call'.op = "set"
         => /\ ret'.raised = None
            /\ Has(table', call'.state, call'.action)
            /\ Q(table', call'.state, call'.action) = call'.val]_vars

\* C20: after load, the table is the mapping that was saved: it holds the keys
\* held at save time, with their values, and no others.
C20_LoadGivesBackTheSaved ==
    call.op = "load" /\ ret.raised = None =>
        /\ saved # None
        /\ \A k \in Keys :
              /\ Has(table, k[1], k[2]) <=> Has(The(saved), k[1], k[2])
              /\ Q(table, k[1], k[2]) = Q(The(saved), k[1], k[2])
        /\ DOMAIN table = DOMAIN The(saved)

\* C20 witness: a table that held entries was saved, and load has returned.
C20_Witness ==
    /\ call.op = "load"
    /\ ret.raised = None
    /\ saved # None
    /\ Has(The(saved), Bmid, <<0, 1>>)
    /\ Q(The(saved), Bmid, <<0, 1>>) = Frac(1, 1)
    /\ Has(The(saved), Bone, <<1, 1>>)

----------------------------------------------------------------------------
(* What the property of the runs speaks of.                                *)

\* C13: a game run by run_test or run_train, whatever empty cells the policies
\* choose, leaves its loop: at the head of the loop fewer than Rows * Cols steps
\* have been made since the reset (counter counts them), the game is not
\* terminated and a pass can be made; no call in the loop raises; the loop is
\* left with terminated = true after at most Rows * Cols steps; and a run that
\* has entered the loop leaves it.
C13_GamesEnd ==
    /\ [](pc = "loop" => counter < Rows * Cols /\ ~terminated /\ CanPass)
    /\ [](pc # "raised")
    /\ [](pc = "done" => terminated /\ counter <= Rows * Cols)
    /\ (pc = "loop") ~> (pc = "done")

\* C13 witness: run_train has left its loop after Rows * Cols steps.
C13_Witness ==
    /\ pc = "done"
    /\ kind = "run_train"
    /\ counter = Rows * Cols
    /\ terminated

----------------------------------------------------------------------------
(* What the properties of run_test and run_train speak of.                 *)

\* C21: run_test never calls update_q_table on either policy, and returns 1 when
\* the first side completed a line, -1 when the second side did, and 0 when the
\* board filled with no line.
C21_RunTestReportsTheOutcome ==
    kind = "run_test" =>
        /\ updated = <<>>
        /\ pc = "done" =>
              /\ winner \in {1, -1, 0}
              /\ winner = 1 <=> HasLine(board, 1)
              /\ winner = -1 <=> HasLine(board, -1)
              /\ winner = 0 <=>
                    (NoEmpty(board) /\ ~HasLine(board, 1) /\ ~HasLine(board, -1))

\* C21 witness: run_test has returned -1 for a game the second side won.
C21_Witness ==
    /\ kind = "run_test"
    /\ pc = "done"
    /\ winner = -1
    /\ HasLine(board, -1)

\* The training flag of a side, and its share of a reward pair.
training(side) == IF side = 1 THEN train_p1 ELSE train_p2
reward_of(pair, side) == pair[IF side = 1 THEN 1 ELSE 2]

\* The arguments of the update_q_table calls a log holds for side.
logged(log, side) == {log[i][2] : i \in {j \in 1 .. Len(log) : log[j][1] = side}}

\* A pass of run_train's loop has been made: its step was called and returned.
TrainPass == kind = "run_train" /\ call.op = "step" /\ ret.raised = None

\* C23: in run_train, the update for a move (s, a) of a side in train mode is made
\* when the other side has replied, with next_state the board as it stands then,
\* the side being next on move, and reward the sum of the side's rewards of the
\* two steps; when the reply ended the game, with next_state = None and that
\* sum; and when the move itself ended the game, at once, with next_state = None
\* and the reward of the move.  No other update is made.
C23_UpdateWaitsForTheReply ==
    [][kind' = "run_train" /\ call'.op = "step" /\ ret'.raised = None
         => LET mover == call'.player
                r == The(ret'.value)
            IN  /\ logged(updated', mover) =
                      IF training(mover) /\ r.terminated
                      THEN {[state |-> board, action |-> call'.position,
                             reward |-> reward_of(r.reward, mover),
                             next_state |-> None]}
                      ELSE {}
                /\ logged(updated', -mover) =
                      IF training(-mover) /\ moved[-mover] # None
                      THEN {[state |-> The(moved[-mover]).state,
                             action |-> The(moved[-mover]).action,
                             reward |-> The(moved[-mover]).reward
                                          + reward_of(r.reward, -mover),
                             next_state |-> IF r.terminated THEN None
                                            ELSE Some(board')]}
                      ELSE {}
                /\ ~r.terminated => on_move' = -mover
                /\ training(mover) => moved'[mover] # None]_vars

\* C23 witness: the first side, in train mode, is on move for the third time and
\* the update of its second move has just been made with the board as it stands.
C23_Witness ==
    /\ TrainPass
    /\ pc = "loop"
    /\ on_move = 1
    /\ plies[1] = 2
    /\ \E u \in logged(updated, 1) : u.next_state = Some(board) /\ u.reward = 0

C27_RewardOnlyAtTheEnd ==
    kind = "run_train" =>
        \A i \in 1 .. Len(updated) :
            /\ updated[i][2].reward \in {-1, 0, 1}
            /\ updated[i][2].next_state # None => updated[i][2].reward = 0
            /\ updated[i][2].reward # 0 => updated[i][2].next_state = None

\* C27 witness: the last pass made two calls, one with reward 1 for the side that
\* won and one with reward -1 for the side that lost, both with next_state = None.
C27_Witness ==
    /\ TrainPass
    /\ pc = "done"
    /\ \E u \in logged(updated, 1) : u.reward = -1 /\ u.next_state = None
    /\ \E u \in logged(updated, -1) : u.reward = 1 /\ u.next_state = None

\* C28: in a run_train game, the update_q_table calls made for a side in train
\* mode number as many as its moves less the one still waiting for the reply,
\* never more than its moves, and as many as its moves once the game has ended;
\* no call is made for a side that is not in train mode.
C28_OneUpdateForEachMove ==
    kind = "run_train" =>
        \A side \in Players :
            IF training(side)
            THEN /\ calls[side] \in {plies[side] - 1, plies[side]} \cap (0 .. Rows * Cols)
                 /\ calls_on(updated, side) <= 1
                 /\ pc = "done" => calls[side] = plies[side]
                 /\ (pc = "loop" /\ plies[side] > 0) => calls[side] = plies[side] - 1 + (IF on_move = side THEN 1 ELSE 0)
            ELSE calls[side] = 0

\* C28 witness: a game in which both sides train has ended with the board full:
\* five moves and five calls for the first side, four and four for the second.
C28_Witness ==
    /\ kind = "run_train"
    /\ pc = "done"
    /\ train_p1 /\ train_p2
    /\ plies[1] = 5 /\ calls[1] = 5
    /\ plies[-1] = 4 /\ calls[-1] = 4

----------------------------------------------------------------------------
(* What the further properties of the engine speak of.                     *)

\* The cells of the windows of b that side m holds whole.
LineCells(b, m) == UNION {l \in Lines : \A p \in l : at(b, p) = m}

\* The set of the coordinates a step returned.
Coordinates == {The(Returned.info.coordinates)[i] :
                   i \in 1 .. Len(The(Returned.info.coordinates))}

\* C26: the winning coordinates a step returns are None exactly when no side has
\* a complete line; otherwise, as a set, they are the cells of the winner's
\* complete windows of win_len cells, each inside the grid and holding the
\* winner's marker.
C26_CoordinatesAreTheWinningCells ==
    StepReturned =>
        /\ Returned.info.coordinates = None
              <=> (~HasLine(board, 1) /\ ~HasLine(board, -1))
        /\ Returned.info.coordinates # None =>
              /\ Returned.reward[1] \in {1, -1}
              /\ Coordinates = LineCells(board, Returned.reward[1])
              /\ \A p \in Coordinates :
                    p \in Cells /\ at(board, p) = Returned.reward[1]

\* C26 witness: the second side has completed the middle column and the step
\* returned its three cells.
C26_Witness ==
    /\ StepReturned
    /\ call.player = -1
    /\ Returned.info.coordinates # None
    /\ Coordinates = {<<0, 1>>, <<1, 1>>, <<2, 1>>}

\* C30: every step that fails, whatever the cause, leaves the grid, counter,
\* on_move and terminated as they were before the call.
C30_FailedStepChangesNothing ==
    [][call'.op = "step" /\ ret'.raised # None
          => UNCHANGED <<board, counter, on_move, terminated>>]_vars

\* Side m holds every cell of some window of L cells of b.
HasWindow(b, m, L) == \E l \in Windows(L) : \A p \in l : at(b, p) = m

CheckCalled == call.op = "_check_board"

\* C25 as claimed: on every grid and for every win_len up to min(rows, cols),
\* _check_board reports a side as winner exactly when some horizontal, vertical,
\* main-diagonal or anti-diagonal window of win_len cells, at any offset, holds
\* only that side's marker.
C25_WinnerIffWindowOnEveryGrid ==
    CheckCalled =>
        \A m \in Players :
            (ret.raised = None /\ Returned.winner = m)
                <=> HasWindow(board, m, call.length)

\* C25 amended: on every grid where at most one side holds a whole window of
\* win_len cells, _check_board reports a side as winner exactly when some
\* horizontal, vertical, main-diagonal or anti-diagonal window, at any offset,
\* holds only that side's marker, and reports no winner when no side does; on a
\* grid where both sides hold one it fails with its assertion and reports nothing.
C25_WinnerIffWindowUnlessBoth ==
    CheckCalled =>
        IF HasWindow(board, 1, call.length) /\ HasWindow(board, -1, call.length)
        THEN ret.raised = Some(Impossible)
        ELSE /\ ret.raised = None
             /\ \A m \in Players :
                   Returned.winner = m <=> HasWindow(board, m, call.length)
             /\ Returned.winner = 0 <=>
                   (~HasWindow(board, 1, call.length)
                    /\ ~HasWindow(board, -1, call.length))

\* C25 witness: with win_len = 2, the second side is reported winner for its one
\* window, the anti-diagonal (1, 2), (2, 1) at the far corner of the board.
C25_Witness ==
    /\ CheckCalled
    /\ call.length = 2
    /\ ret.raised = None
    /\ Returned.winner = -1
    /\ {l \in Windows(2) : \A p \in l : at(board, p) = -1} = {{<<1, 2>>, <<2, 1>>}}

----------------------------------------------------------------------------
(* What the further property of the policies speaks of.                    *)

\* The keys a caller of a policy can name.
PKeys == PStates \X Cells

\* C29: a decide call on a Q-learning policy, in eval or train mode, changes the
\* value get would return for no key: every entry the table held it still holds,
\* with its value, and every entry added holds the default.
C29_DecideKeepsEveryValue ==
    [][call'.op = "QLearningPolicy.decide"
         => \A k \in PKeys :
               /\ Q(table', k[1], k[2]) = Q(table, k[1], k[2])
               /\ Has(table, k[1], k[2]) => Has(table', k[1], k[2])
               /\ (Has(table', k[1], k[2]) /\ ~Has(table, k[1], k[2]))
                     => table'[_encode_state(k[1])][k[2]] = initial_val]_vars

\* C29 witness: in eval mode decide has chosen among the cells of a state of which
\* the table held two learned values, and has added the default for the third.
C29_Witness ==
    /\ call.op = "QLearningPolicy.decide"
    /\ mode = "eval"
    /\ call.state = Bmid
    /\ ret.raised = None
    /\ Returned = <<2, 2>>
    /\ Q(table, Bmid, <<1, 1>>) = Frac(-1, 100)
    /\ Q(table, Bmid, <<2, 2>>) = Frac(1, 100)
    /\ Has(table, Bmid, <<0, 1>>)
    /\ Q(table, Bmid, <<0, 1>>) = initial_val

----------------------------------------------------------------------------
(* What the property of the two tables speaks of.                          *)

\* C22: in run_train, every update_q_table call made for a side returns and
\* changes the table of that side's policy alone: the table of the other side
\* holds the same entries and values after the call as before it, and so does
\* every other table; the tables of the two sides are two objects.
C22_UpdateChangesOneTable ==
    kind = "run_train" =>
        \A i \in 1 .. Len(learnt) :
            LET e == learnt[i]
                own == policy_of(e.side)
                other == policy_of(-e.side)
            IN  /\ e.raised = None
                /\ own.class = "QLearningPolicy"
                /\ Has(e.after[own.q_table], e.state, e.action)
                /\ \A j \in DOMAIN e.before \ {own.q_table} :
                      e.after[j] = e.before[j]
                /\ other.class = "QLearningPolicy" =>
                      /\ other.q_table # own.q_table
                      /\ e.after[other.q_table] = e.before[other.q_table]

\* C22 witness: both sides train; the last pass updated the table of each, and
\* the call for the first side changed its table while the second side's table,
\* which holds entries, stayed as it was.
C22_Witness ==
    /\ kind = "run_train"
    /\ train_p1 /\ train_p2
    /\ Len(learnt) = 2
    /\ \E i \in 1 .. Len(learnt) :
          /\ learnt[i].side = 1
          /\ learnt[i].raised = None
          /\ learnt[i].after[p1.q_table] # learnt[i].before[p1.q_table]
          /\ learnt[i].before[p2.q_table] # empty_dict
          /\ learnt[i].after[p2.q_table] = learnt[i].before[p2.q_table]

====
